---- MODULE Spec2Model ----
(***************************************************************************)
(* A model of demo/src/main.rs of apex-protocol: main runs five demo flows *)
(* and then writes the recorded traces.  Each flow builds a fresh          *)
(* SimulationEnvironment and calls helpers that resolve objects from the   *)
(* environment's store, compose the inputs and commands of a programmable  *)
(* transaction block (PTB), hand them to env.execute_ptb, record a         *)
(* PtbTrace (three helpers do) and pick the object of interest out of the  *)
(* effects.                                                                *)
(*                                                                         *)
(* The environment and the Move VM behind execute_ptb are external.  A     *)
(* call into them has a nominal outcome, the one the demo expects, and     *)
(* other outcomes: a failed block, a block without effects, any list of    *)
(* up to MaxCreated created objects, shared or owned, held by the store or *)
(* not, and an Err from a fallible call.  A run takes the nominal outcome  *)
(* everywhere but at one call at most, where it may take any outcome.      *)
(***************************************************************************)
EXTENDS Integers, Sequences, FiniteSets, TLC

VARIABLES
    objects,   \* SimulationEnvironment: the object store, id -> object
    sender,    \* SimulationEnvironment: the active sender
    nextId,    \* SimulationEnvironment: the next fresh object id
    consumed,  \* SimulationEnvironment: the ids its blocks have deleted so far
    traces,    \* DEMO_TRACES.traces
    file,      \* ptb_traces.json: <<>> or <<the traces written>>
    engine,    \* the last call of env.execute_ptb: the block and the store it met
    ret,       \* what the last call returned to the flow
    pc,        \* where main is
    locals,    \* the object ids the running flow holds
    deviated,  \* whether an external call has already left its nominal outcome
    classified, \* history: the last result a helper has read and the first one
                \* read in each way, with what the helper made of them
    sink,      \* history: the logs written to ptb_traces.json, one per fs::write
    mutex,     \* DEMO_TRACES: the thread holding the lock (0: none), and the poison flag
    threads    \* the threads calling record_trace and save_traces concurrently

vars ==
    <<objects, sender, nextId, consumed, traces, file, engine, ret, pc, locals, deviated,
      classified, sink, mutex, threads>>

(***************************************************************************)
(* Bounds of the model.                                                    *)
(***************************************************************************)
\* most objects one block creates
MaxCreated == 2

\* the threads that call the trace recorder at the same time
MaxThreads == 4

(***************************************************************************)
(* Program constants.                                                      *)
(***************************************************************************)
\* the clock singleton 0x6
CLOCK_ID == 6
\* the version setup_clock loads the clock with
CLOCK_VERSION == 1
\* the first id the environment hands out (above the framework's 0x1..0x6)
FirstId == CLOCK_ID + 1

ADMIN == "0xAD..01"
PROVIDER == "0x11..11"
AGENT == "0x22..22"
OWNER == "0x33..33"
FUND_MANAGER == "0x44..44"
INVESTOR_A == "0x55..55"
\* the sender of a fresh SimulationEnvironment
DEFAULT_SENDER == "0x0"

\* TypeTag::Struct(StructTag { module, name, .. })
StructTag(module, name) == [module |-> module, name |-> name]

\* 0x2::coin::Coin<0x2::sui::SUI>
coin_type == StructTag("coin", "Coin<0x2::sui::SUI>")

\* 0x2::clock::Clock
clock_type == StructTag("clock", "Clock")

\* types of the objects the Move calls create
CreatedTypes ==
    {StructTag("apex_fund", "InvestorPosition"), StructTag("apex_payments", "AccessCapability")}

(***************************************************************************)
(* Option<T>: None is <<>>, Some(x) is <<x>>.                              *)
(***************************************************************************)
None == <<>>
Some(x) == <<x>>
IsSome(o) == Len(o) = 1
Unwrap(o) == o[1]

(***************************************************************************)
(* The object store.                                                       *)
(***************************************************************************)
\* env.get_object(id).is_some()
has_object(objs, id) == id \in DOMAIN objs

\* env.get_object(id): Option of the stored object
get_object(objs, id) == IF has_object(objs, id) THEN Some(objs[id]) ELSE None

StoredObject(bytes, version, type_tag, is_shared, owner) ==
    [bcs_bytes |-> bytes, version |-> version, type_tag |-> type_tag,
     is_shared |-> is_shared, owner |-> owner]

Put(objs, id, obj) == [i \in DOMAIN objs \cup {id} |-> IF i = id THEN obj ELSE objs[i]]

NoObjects == [i \in {} |-> 0]

(***************************************************************************)
(* Inputs, arguments and commands of a block (sui_sandbox::ptb).           *)
(***************************************************************************)
Pure(value) == [kind |-> "Pure", value |-> value]

\* Shared with the version the object was created at instead of the resolved one
Shared_first_version(id, obj, mutable) ==
    [kind |-> "Shared", id |-> id, bytes |-> obj.bcs_bytes, type_tag |-> None,
     version |-> Some(1), mutable |-> mutable]

Shared(id, obj, mutable) ==
    [kind |-> "Shared", id |-> id, bytes |-> obj.bcs_bytes, type_tag |-> None,
     version |-> Some(obj.version), mutable |-> mutable]

\* MutRef with version: None
MutRef_unversioned(id, obj) ==
    [kind |-> "MutRef", id |-> id, bytes |-> obj.bcs_bytes, type_tag |-> None,
     version |-> None]

MutRef(id, obj) ==
    [kind |-> "MutRef", id |-> id, bytes |-> obj.bcs_bytes, type_tag |-> None,
     version |-> Some(obj.version)]

Owned(id, obj, type_tag, version) ==
    [kind |-> "Owned", id |-> id, bytes |-> obj.bcs_bytes, type_tag |-> type_tag,
     version |-> version]

Input(i) == [kind |-> "Input", i |-> i]
NestedResult(c, o) == [kind |-> "NestedResult", c |-> c, o |-> o]

MoveCall(module, function, args) ==
    [kind |-> "MoveCall", module |-> module, function |-> function, args |-> args]

TransferObjects(objs, address) ==
    [kind |-> "TransferObjects", objects |-> objs, address |-> address]

\* every argument of a command, in order
ArgsOf(cmd) ==
    IF cmd.kind = "MoveCall" THEN cmd.args ELSE cmd.objects \o <<cmd.address>>

IsObjectInput(inp) == inp.kind # "Pure"

Range(s) == {s[i] : i \in DOMAIN s}

RECURSIVE Dedup(_)
Dedup(s) ==
    IF s = <<>> THEN <<>>
    ELSE LET rest == Dedup(Tail(s))
         IN IF Head(s) \in Range(rest) THEN rest ELSE <<Head(s)>> \o rest

RECURSIVE SelectIds(_, _)
SelectIds(inputs, kinds) ==
    IF inputs = <<>> THEN <<>>
    ELSE LET h == Head(inputs)
             rest == SelectIds(Tail(inputs), kinds)
         IN IF h.kind \in kinds /\ (h.kind = "Shared" => h.mutable)
            THEN <<h.id>> \o rest ELSE rest

(***************************************************************************)
(* env.execute_ptb: the external engine.  A call either fails and leaves   *)
(* the store alone (its result may or may not carry effects), or succeeds: *)
(* it creates fresh objects (some of which the store may not hold          *)
(* afterwards), advances the version of every object passed mutably and    *)
(* may consume the objects passed by value.                                *)
(***************************************************************************)
Missing ==
    [in_store |-> FALSE, is_shared |-> FALSE,
     type_tag |-> StructTag("apex_payments", "AccessCapability")]

CreatedShapes ==
    {Missing} \cup [in_store : {TRUE}, is_shared : BOOLEAN, type_tag : CreatedTypes]

Failure == [success |-> FALSE, has_effects |-> FALSE, created |-> <<>>, consume |-> FALSE]

\* a failed result may still list what the aborted block had made so far
Outcomes ==
    {Failure}
    \cup UNION {[success : {FALSE}, has_effects : {TRUE},
                 created : [1..n -> {Missing}], consume : {FALSE}]
                : n \in 0..MaxCreated}
    \cup [success : {TRUE}, has_effects : {FALSE}, created : {<<>>}, consume : BOOLEAN]
    \cup UNION {[success : {TRUE}, has_effects : {TRUE},
                 created : [1..n -> CreatedShapes], consume : BOOLEAN]
                : n \in 0..MaxCreated}

\* the outcome of a call that goes as the demo expects: the block succeeds,
\* consumes what it was given by value and creates a shared and an owned object
Nominal ==
    [success |-> TRUE, has_effects |-> TRUE, consume |-> TRUE,
     created |-> << [in_store |-> TRUE, is_shared |-> TRUE,
                     type_tag |-> StructTag("apex_payments", "AccessCapability")],
                    [in_store |-> TRUE, is_shared |-> FALSE,
                     type_tag |-> StructTag("apex_fund", "InvestorPosition")] >>]

Mutate(obj) == [obj EXCEPT !.version = @ + 1, !.bcs_bytes = @ + 1]

CreatedIds(next, o) == [i \in 1..Len(o.created) |-> next + i - 1]

ExecutionResult(o, next, inputs) ==
    [success |-> o.success,
     effects |-> IF o.has_effects
                 THEN Some([created |-> CreatedIds(next, o),
                            mutated |-> Dedup(SelectIds(inputs, {"Shared", "MutRef"})),
                            gas_used |-> 1])
                 ELSE None,
     error |-> IF o.success THEN None ELSE Some("MoveAbort")]

StoreAfter(objs, o, next, who, inputs) ==
    IF ~o.success THEN objs
    ELSE LET mutated == Range(SelectIds(inputs, {"Shared", "MutRef"}))
             deleted == IF o.consume THEN Range(SelectIds(inputs, {"Owned"})) ELSE {}
             kept == DOMAIN objs \ deleted
             made == {i \in 1..Len(o.created) : o.created[i].in_store}
         IN [id \in kept \cup {next + i - 1 : i \in made} |->
                IF id \in kept
                THEN IF id \in mutated THEN Mutate(objs[id]) ELSE objs[id]
                ELSE LET d == o.created[id - next + 1]
                     IN StoredObject(1, 1, d.type_tag, d.is_shared,
                                     IF d.is_shared THEN "Shared" ELSE who)]

(***************************************************************************)
(* Rendering a block and its result as a PtbTrace.                         *)
(***************************************************************************)
HexId(id) == <<"0x", id>>

\* format!("{}", type_tag)
Display(t) == <<t.module, "::", t.name>>

\* format_input counting the inputs from one
format_input_from_one(input, index) ==
    [index |-> index + 1,
     input_type |-> input.kind,
     object_id |-> IF input.kind = "Pure" THEN None ELSE Some(<<"0x", input.id>>),
     type_tag |-> None,
     value |-> IF input.kind = "Pure" THEN Some(<<"0x", input.value>>) ELSE None]

format_input(input, index) ==
    IF input.kind = "Pure"
    THEN [index |-> index, input_type |-> "Pure", object_id |-> None,
          type_tag |-> None, value |-> Some(<<"0x", input.value>>)]
    ELSE [index |-> index,
          input_type |-> IF input.kind = "Shared"
                         THEN (IF input.mutable THEN "SharedMut" ELSE "SharedImm")
                         ELSE input.kind,
          object_id |-> Some(HexId(input.id)),
          type_tag |-> IF IsSome(input.type_tag)
                       THEN Some(Display(Unwrap(input.type_tag))) ELSE None,
          value |-> None]

format_command(cmd, index) ==
    IF cmd.kind = "MoveCall"
    THEN [index |-> index, command_type |-> "MoveCall", package |-> Some("apex_pkg"),
          module |-> Some(cmd.module), function |-> Some(cmd.function),
          type_args |-> <<>>, args |-> cmd.args]
    ELSE [index |-> index, command_type |-> "TransferObjects", package |-> None,
          module |-> None, function |-> None, type_args |-> <<>>,
          args |-> <<<<"objects: ", cmd.objects>>, <<"to: ", cmd.address>>>>]

create_trace(demo, step, who, inputs, commands, result, objs) ==
    [demo |-> demo, step |-> step, sender |-> <<"0x", who>>,
     inputs |-> [i \in 1..Len(inputs) |-> format_input(inputs[i], i - 1)],
     commands |-> [i \in 1..Len(commands) |-> format_command(commands[i], i - 1)],
     outputs |->
        IF result.success
        THEN LET created == IF IsSome(result.effects)
                            THEN Unwrap(result.effects).created ELSE <<>>
                 mutated == IF IsSome(result.effects)
                            THEN Unwrap(result.effects).mutated ELSE <<>>
             IN [success |-> TRUE,
                 gas_used |-> IF IsSome(result.effects)
                              THEN Unwrap(result.effects).gas_used ELSE 0,
                 created_objects |->
                    [i \in 1..Len(created) |->
                        [object_id |-> HexId(created[i]),
                         object_type |-> IF has_object(objs, created[i])
                                         THEN Display(objs[created[i]].type_tag)
                                         ELSE "unknown",
                         owner |-> IF has_object(objs, created[i])
                                   THEN objs[created[i]].owner ELSE "unknown"]],
                 mutated_objects |-> [i \in 1..Len(mutated) |-> HexId(mutated[i])],
                 events |-> <<>>,
                 error |-> None]
        ELSE [success |-> FALSE, gas_used |-> 0, created_objects |-> <<>>,
              mutated_objects |-> <<>>, events |-> <<>>, error |-> result.error]]

(***************************************************************************)
(* The persisted form: #[derive(Serialize, Deserialize)] on the trace      *)
(* structs.  A JSON value is a record tagged by t; a struct becomes an     *)
(* object with one member per field, an Option null or its content, a Vec  *)
(* an array in the order of the Vec.                                       *)
(***************************************************************************)
\* Option<String> with None written as the string "null": None and
\* Some("null") become one value
Serialize_Option_as_string(o) ==
    [t |-> "string", v |-> IF IsSome(o) THEN Unwrap(o) ELSE "null"]

\* Option<String>: None is null, Some(s) the string s
Serialize_Option(o) ==
    IF IsSome(o) THEN [t |-> "string", v |-> Unwrap(o)] ELSE [t |-> "null"]

Deserialize_Option(j) ==
    IF j.t = "null" THEN None ELSE Some(j.v)

\* PtbTrace with its PtbInput, PtbCommand, PtbOutputs and CreatedObject
Serialize_PtbTrace(x) ==
    [t |-> "object", v |->
     [demo |-> [t |-> "string", v |-> x.demo],
      step |-> [t |-> "string", v |-> x.step],
      sender |-> [t |-> "string", v |-> x.sender],
      inputs |-> [t |-> "array", v |->
         [i \in DOMAIN x.inputs |-> [t |-> "object", v |->
            [index |-> [t |-> "number", v |-> x.inputs[i].index],
             input_type |-> [t |-> "string", v |-> x.inputs[i].input_type],
             object_id |-> Serialize_Option(x.inputs[i].object_id),
             type_tag |-> Serialize_Option(x.inputs[i].type_tag),
             value |-> Serialize_Option(x.inputs[i].value)]]]],
      commands |-> [t |-> "array", v |->
         [i \in DOMAIN x.commands |-> [t |-> "object", v |->
            [index |-> [t |-> "number", v |-> x.commands[i].index],
             command_type |-> [t |-> "string", v |-> x.commands[i].command_type],
             package |-> Serialize_Option(x.commands[i].package),
             module |-> Serialize_Option(x.commands[i].module),
             function |-> Serialize_Option(x.commands[i].function),
             type_args |-> [t |-> "array", v |->
                [k \in DOMAIN x.commands[i].type_args |->
                    [t |-> "string", v |-> x.commands[i].type_args[k]]]],
             args |-> [t |-> "array", v |->
                [k \in DOMAIN x.commands[i].args |->
                    [t |-> "string", v |-> x.commands[i].args[k]]]]]]]],
      outputs |-> [t |-> "object", v |->
         [success |-> [t |-> "bool", v |-> x.outputs.success],
          gas_used |-> [t |-> "number", v |-> x.outputs.gas_used],
          created_objects |-> [t |-> "array", v |->
             [i \in DOMAIN x.outputs.created_objects |-> [t |-> "object", v |->
                [object_id |-> [t |-> "string",
                                v |-> x.outputs.created_objects[i].object_id],
                 object_type |-> [t |-> "string",
                                  v |-> x.outputs.created_objects[i].object_type],
                 owner |-> [t |-> "string",
                            v |-> x.outputs.created_objects[i].owner]]]]],
          mutated_objects |-> [t |-> "array", v |->
             [i \in DOMAIN x.outputs.mutated_objects |->
                 [t |-> "string", v |-> x.outputs.mutated_objects[i]]]],
          events |-> [t |-> "array", v |-> <<>>],
          error |-> Serialize_Option(x.outputs.error)]]]]

Deserialize_PtbTrace(j) ==
    [demo |-> j.v.demo.v,
     step |-> j.v.step.v,
     sender |-> j.v.sender.v,
     inputs |->
        [i \in DOMAIN j.v.inputs.v |->
            LET m == j.v.inputs.v[i].v
            IN [index |-> m.index.v, input_type |-> m.input_type.v,
                object_id |-> Deserialize_Option(m.object_id),
                type_tag |-> Deserialize_Option(m.type_tag),
                value |-> Deserialize_Option(m.value)]],
     commands |->
        [i \in DOMAIN j.v.commands.v |->
            LET m == j.v.commands.v[i].v
            IN [index |-> m.index.v, command_type |-> m.command_type.v,
                package |-> Deserialize_Option(m.package),
                module |-> Deserialize_Option(m.module),
                function |-> Deserialize_Option(m.function),
                type_args |-> [k \in DOMAIN m.type_args.v |-> m.type_args.v[k].v],
                args |-> [k \in DOMAIN m.args.v |-> m.args.v[k].v]]],
     outputs |->
        LET m == j.v.outputs.v
        IN [success |-> m.success.v,
            gas_used |-> m.gas_used.v,
            created_objects |->
               [i \in DOMAIN m.created_objects.v |->
                   [object_id |-> m.created_objects.v[i].v.object_id.v,
                    object_type |-> m.created_objects.v[i].v.object_type.v,
                    owner |-> m.created_objects.v[i].v.owner.v]],
            mutated_objects |->
               [i \in DOMAIN m.mutated_objects.v |-> m.mutated_objects.v[i].v],
            events |-> <<>>,
            error |-> Deserialize_Option(m.error)]]

\* DemoTraces as the collector holds it; the timestamp is the second count
\* taken when the collector was made
DemoTraces(log) ==
    [protocol |-> "APEX Protocol", version |-> "0.1.0", timestamp |-> "0s",
     traces |-> log]

\* serde_json::to_string_pretty(self)
to_string_pretty(self) ==
    [t |-> "object", v |->
     [protocol |-> [t |-> "string", v |-> self.protocol],
      version |-> [t |-> "string", v |-> self.version],
      timestamp |-> [t |-> "string", v |-> self.timestamp],
      traces |-> [t |-> "array", v |->
         [i \in DOMAIN self.traces |-> Serialize_PtbTrace(self.traces[i])]]]]

\* serde_json::from_str::<DemoTraces>(json)
from_str(json) ==
    [protocol |-> json.v.protocol.v, version |-> json.v.version.v,
     timestamp |-> json.v.timestamp.v,
     traces |-> [i \in DOMAIN json.v.traces.v |->
                    Deserialize_PtbTrace(json.v.traces.v[i])]]

(***************************************************************************)
(* What a helper returns: Ok(val) / Ok(flag) or Err(anyhow!(err)).         *)
(***************************************************************************)
Ok(val) == [ok |-> TRUE, kind |-> "ok", err |-> "", val |-> val, flag |-> TRUE]
OkFlag(b) == [ok |-> TRUE, kind |-> "ok", err |-> "", val |-> <<>>, flag |-> b]
Err(kind, msg) == [ok |-> FALSE, kind |-> kind, err |-> msg, val |-> <<>>, flag |-> FALSE]

\* env.get_object(&id).ok_or_else(|| anyhow!(msg))?, one after the other:
\* the index of the first object that did not resolve, or 0
RECURSIVE first_missing(_, _)
first_missing(handles, i) ==
    IF i > Len(handles) THEN 0
    ELSE IF ~IsSome(handles[i]) THEN i
    ELSE first_missing(handles, i + 1)

(***************************************************************************)
(* Picking the object of interest out of result.effects.created.           *)
(***************************************************************************)
\* created.iter().position(|id| pred(id)): the least index of a match, or 0
find(hits) ==
    IF hits = {} THEN 0 ELSE CHOOSE i \in hits : \A j \in hits : i <= j

\* is_shared_or taking an object the store does not hold for a shared one
is_shared_or_absent(objs, id, default) ==
    IF has_object(objs, id) THEN objs[id].is_shared ELSE TRUE

\* env.get_object(id).map(|o| o.is_shared).unwrap_or(false)
is_shared_or(objs, id, default) ==
    IF has_object(objs, id) THEN objs[id].is_shared ELSE default

\* first_created making do with a mutated object when nothing was created
first_created_or_mutated(result, objs, fail_msg, none_msg) ==
    IF ~result.success THEN Err("execution", fail_msg)
    ELSE IF ~IsSome(result.effects) THEN Err("no_effects", "No effects")
    ELSE LET created == Unwrap(result.effects).created
             mutated == Unwrap(result.effects).mutated
         IN IF created # <<>> THEN Ok(<<created[1]>>)
            ELSE IF mutated # <<>> THEN Ok(<<mutated[1]>>)
            ELSE Err("classification", none_msg)

\* first_created without the look at result.success
first_created_of_any_result(result, objs, fail_msg, none_msg) ==
    IF ~IsSome(result.effects) THEN Err("no_effects", "No effects")
    ELSE LET created == Unwrap(result.effects).created
         IN IF created = <<>> THEN Err("classification", none_msg)
            ELSE Ok(<<created[1]>>)

\* if !result.success { return Err(..) }; effects.ok_or("No effects")?;
\* effects.created.first().ok_or(none_msg)?
first_created(result, objs, fail_msg, none_msg) ==
    IF ~result.success THEN Err("execution", fail_msg)
    ELSE IF ~IsSome(result.effects) THEN Err("no_effects", "No effects")
    ELSE LET created == Unwrap(result.effects).created
         IN IF created = <<>> THEN Err("classification", none_msg)
            ELSE Ok(<<created[1]>>)

\* shared_or_first falling back on the last created object
shared_or_last(result, objs, fail_msg, none_msg) ==
    IF ~result.success THEN Err("execution", fail_msg)
    ELSE IF ~IsSome(result.effects) THEN Err("no_effects", "No effects")
    ELSE LET created == Unwrap(result.effects).created
             hit == find({i \in DOMAIN created : is_shared_or(objs, created[i], FALSE)})
         IN IF hit # 0 THEN Ok(<<created[hit]>>)
            ELSE IF created = <<>> THEN Err("classification", none_msg)
            ELSE Ok(<<created[Len(created)]>>)

\* .find(|id| is_shared).or(created.first()).ok_or(none_msg)?
shared_or_first(result, objs, fail_msg, none_msg) ==
    IF ~result.success THEN Err("execution", fail_msg)
    ELSE IF ~IsSome(result.effects) THEN Err("no_effects", "No effects")
    ELSE LET created == Unwrap(result.effects).created
             hit == find({i \in DOMAIN created : is_shared_or(objs, created[i], FALSE)})
         IN IF hit # 0 THEN Ok(<<created[hit]>>)
            ELSE IF created = <<>> THEN Err("classification", none_msg)
            ELSE Ok(<<created[1]>>)

\* position_or_last taking the last InvestorPosition of the list
position_or_last_match(result, objs, fail_msg, none_msg) ==
    IF ~result.success THEN Err("execution", fail_msg)
    ELSE IF ~IsSome(result.effects) THEN Err("no_effects", "No effects")
    ELSE LET created == Unwrap(result.effects).created
             hits == {i \in DOMAIN created :
                        IF has_object(objs, created[i])
                        THEN objs[created[i]].type_tag.name = "InvestorPosition"
                        ELSE FALSE}
         IN IF created = <<>> THEN Err("classification", none_msg)
            ELSE IF hits = {} THEN Ok(<<created[Len(created)]>>)
            ELSE Ok(<<created[CHOOSE i \in hits : \A j \in hits : j <= i]>>)

\* .find(|id| type name is "InvestorPosition").or(created.last()).ok_or(..)?
position_or_last(result, objs, fail_msg, none_msg) ==
    IF ~result.success THEN Err("execution", fail_msg)
    ELSE IF ~IsSome(result.effects) THEN Err("no_effects", "No effects")
    ELSE LET created == Unwrap(result.effects).created
             hit == find({i \in DOMAIN created :
                        IF has_object(objs, created[i])
                        THEN objs[created[i]].type_tag.name = "InvestorPosition"
                        ELSE FALSE})
         IN IF hit # 0 THEN Ok(<<created[hit]>>)
            ELSE IF created = <<>> THEN Err("classification", none_msg)
            ELSE Ok(<<created[Len(created)]>>)

\* if !result.success { return Err(..) }; Ok(())
unit(result, objs, fail_msg, none_msg) ==
    IF ~result.success THEN Err("execution", fail_msg) ELSE Ok(<<>>)

\* Ok(result.success)
success_flag(result, objs, fail_msg, none_msg) == OkFlag(result.success)

\* let _ = env.execute_ptb(vec![], [initialize_seal]);
ignore_result(result, objs, fail_msg, none_msg) == Ok(<<>>)

\* extract_protocol_objects going by the trace log: once a trace has been
\* recorded it takes the two objects the other way round
extract_protocol_objects_by_log(result, objs, fail_msg, none_msg) ==
    IF ~result.success THEN Err("execution", "Protocol init failed")
    ELSE IF ~IsSome(result.effects) THEN Err("no_effects", "No effects")
    ELSE LET created == Unwrap(result.effects).created
             s == find({i \in DOMAIN created : is_shared_or(objs, created[i], FALSE)})
             n == find({i \in DOMAIN created : ~is_shared_or(objs, created[i], TRUE)})
             config == IF s # 0 THEN created[s] ELSE created[1]
             admin_cap == IF n # 0 THEN created[n] ELSE created[Len(created)]
         IN IF Len(created) < 2 THEN Err("classification", "Expected 2 objects")
            ELSE IF traces = <<>> THEN Ok(<<config, admin_cap>>)
            ELSE Ok(<<admin_cap, config>>)

\* extract_protocol_objects refusing a result without a shared object
extract_protocol_objects_strict(result, objs, fail_msg, none_msg) ==
    IF ~result.success THEN Err("execution", "Protocol init failed")
    ELSE IF ~IsSome(result.effects) THEN Err("no_effects", "No effects")
    ELSE LET created == Unwrap(result.effects).created
             s == find({i \in DOMAIN created : is_shared_or(objs, created[i], FALSE)})
             n == find({i \in DOMAIN created : ~is_shared_or(objs, created[i], TRUE)})
         IN IF Len(created) < 2 THEN Err("classification", "Expected 2 objects")
            ELSE IF s = 0 THEN Err("classification", "No config created")
            ELSE Ok(<<created[s],
                      IF n # 0 THEN created[n] ELSE created[Len(created)]>>)

extract_protocol_objects(result, objs, fail_msg, none_msg) ==
    IF ~result.success THEN Err("execution", "Protocol init failed")
    ELSE IF ~IsSome(result.effects) THEN Err("no_effects", "No effects")
    ELSE LET created == Unwrap(result.effects).created
             s == find({i \in DOMAIN created : is_shared_or(objs, created[i], FALSE)})
             n == find({i \in DOMAIN created : ~is_shared_or(objs, created[i], TRUE)})
         IN IF Len(created) < 2 THEN Err("classification", "Expected 2 objects")
            ELSE Ok(<<IF s # 0 THEN created[s] ELSE created[1],
                      IF n # 0 THEN created[n] ELSE created[Len(created)]>>)

\* what a helper makes of the result of its block
read_result(how, result, objs, fail_msg, none_msg) ==
    CASE how = "first_created" -> first_created(result, objs, fail_msg, none_msg)
      [] how = "shared_or_first" -> shared_or_first(result, objs, fail_msg, none_msg)
      [] how = "position_or_last" -> position_or_last(result, objs, fail_msg, none_msg)
      [] how = "unit" -> unit(result, objs, fail_msg, none_msg)
      [] how = "success_flag" -> success_flag(result, objs, fail_msg, none_msg)
      [] how = "ignore_result" -> ignore_result(result, objs, fail_msg, none_msg)
      [] how = "extract_protocol_objects" ->
             extract_protocol_objects(result, objs, fail_msg, none_msg)

(***************************************************************************)
(* The shape every helper has: resolve the objects, compose the inputs     *)
(* and the commands, call env.execute_ptb, record a trace (three helpers   *)
(* do) and pick the return value out of the result.                        *)
(***************************************************************************)
Return(op, uses, r) ==
    [op |-> op, uses |-> uses, ok |-> r.ok, kind |-> r.kind, err |-> r.err,
     val |-> r.val, flag |-> r.flag]

\* a resolve that falls back on the snapshot held for the last block
resolve_cached(id) ==
    IF has_object(objects, id) THEN Some(objects[id]) ELSE get_object(engine.at, id)

\* a resolve that keeps the snapshot taken for the last block while it has one
resolve_stale(id) ==
    IF has_object(engine.at, id) THEN Some(engine.at[id]) ELSE get_object(objects, id)

\* env.get_object(&id)
resolve(id) == get_object(objects, id)

\* .ok_or_else(|| anyhow!("X not found"))?: the object, once it is known to be there
handle(id) == Unwrap(resolve(id))

\* let result = env.execute_ptb(inputs, commands); record_trace(create_trace(..));
\* then the helper's reading of the result
Submit(op, uses, inputs, commands, label, how, fail_msg, none_msg) ==
    \E o \in Outcomes :
        LET result == ExecutionResult(o, nextId, inputs)
            after == StoreAfter(objects, o, nextId, sender, inputs)
        IN /\ deviated => o = Nominal
           /\ deviated' = (deviated \/ o # Nominal)
           /\ objects' = after
           /\ nextId' = IF o.success THEN nextId + Len(o.created) ELSE nextId
           /\ consumed' = consumed \cup (DOMAIN objects \ DOMAIN after)
           /\ engine' = [n |-> engine.n + 1, inputs |-> inputs, commands |-> commands,
                         at |-> objects, sender |-> sender, result |-> result]
           /\ traces' = IF label = None THEN traces
                        ELSE Append(traces,
                                create_trace(Unwrap(label)[1], Unwrap(label)[2], sender, inputs,
                                             commands, result, after))
           /\ ret' = Return(op, uses, read_result(how, result, after, fail_msg, none_msg))
           /\ LET reading == [how |-> how, result |-> result, objs |-> after,
                               call |-> engine.n + 1, logged |-> Len(traces'),
                               r |-> read_result(how, result, after, fail_msg, none_msg)]
              IN classified' =
                    [first |-> IF how \in DOMAIN classified.first THEN classified.first
                               ELSE Put(classified.first, how, reading),
                     last |-> Some(reading)]

\* .ok_or_else(|| anyhow!(msg))? on an object the store does not hold
NotFound(op, uses, msg) ==
    /\ ret' = Return(op, uses, Err("not_found", msg))
    /\ UNCHANGED <<objects, nextId, consumed, engine, traces, deviated, classified>>

Helper(op, needs, inputs, commands, label, how, fail_msg, none_msg) ==
    /\ LET uses == {needs[i][1] : i \in DOMAIN needs}
           handles == [i \in DOMAIN needs |-> resolve(needs[i][1])]
           missing == first_missing(handles, 1)
       IN IF missing # 0
          THEN NotFound(op, uses, needs[missing][2])
          ELSE Submit(op, uses, inputs, commands, label, how, fail_msg, none_msg)
    /\ UNCHANGED <<sender, file, sink>>

\* bcs::to_bytes(&x): the bytes of a pure argument, by what they encode
Bcs(tag, x) == <<tag, x>>

the_clock == <<CLOCK_ID, "Clock not found">>

Inputs0to(n) == [i \in 1..(n + 1) |-> Input(i - 1)]

(***************************************************************************)
(* Hedge fund helpers.                                                     *)
(***************************************************************************)
create_hedge_fund_inputs(config_id, service_id, init_coin_id) ==
    << Shared(config_id, handle(config_id), FALSE),
       Shared(service_id, handle(service_id), TRUE),
       Pure(Bcs("vector<u8>", "name")),
       Pure(Bcs("u64", "entry_fee")),
       Pure(Bcs("u64", "management_fee_bps")),
       Pure(Bcs("u64", "performance_fee_bps")),
       Pure(Bcs("u64", "max_capacity")),
       Owned(init_coin_id, handle(init_coin_id), Some(coin_type), None),
       Shared(CLOCK_ID, handle(CLOCK_ID), FALSE) >>

create_hedge_fund_commands ==
    << MoveCall("apex_fund", "create_fund", Inputs0to(8)) >>

create_hedge_fund(config_id, service_id, init_coin_id) ==
    Helper("create_hedge_fund",
           << <<config_id, "Config not found">>, <<service_id, "Service not found">>,
              <<init_coin_id, "Coin not found">>, the_clock >>,
           create_hedge_fund_inputs(config_id, service_id, init_coin_id),
           create_hedge_fund_commands, None,
           "shared_or_first", "Create fund failed", "No fund created")

join_fund_inputs(who, fund_id, config_id, service_id, entry_fee_coin_id, deposit_coin_id) ==
    << Shared(fund_id, handle(fund_id), TRUE),
       Shared(config_id, handle(config_id), TRUE),
       Shared(service_id, handle(service_id), TRUE),
       Owned(entry_fee_coin_id, handle(entry_fee_coin_id), Some(coin_type), None),
       Owned(deposit_coin_id, handle(deposit_coin_id), Some(coin_type), None),
       Shared(CLOCK_ID, handle(CLOCK_ID), FALSE),
       Pure(Bcs("address", who)) >>

join_fund_commands ==
    << MoveCall("apex_fund", "join_fund", Inputs0to(5)),
       TransferObjects(<<NestedResult(0, 0)>>, Input(6)) >>

join_fund(fund_id, config_id, service_id, entry_fee_coin_id, deposit_coin_id) ==
    Helper("join_fund",
           << <<fund_id, "Fund not found">>, <<config_id, "Config not found">>,
              <<service_id, "Service not found">>,
              <<entry_fee_coin_id, "Entry coin not found">>,
              <<deposit_coin_id, "Deposit coin not found">>, the_clock >>,
           join_fund_inputs(sender, fund_id, config_id, service_id,
                            entry_fee_coin_id, deposit_coin_id),
           join_fund_commands, None,
           "position_or_last", "Join fund failed", "No position created")

fund_and_clock_inputs(fund_id) ==
    << Shared(fund_id, handle(fund_id), TRUE),
       Shared(CLOCK_ID, handle(CLOCK_ID), FALSE) >>

start_fund_trading_commands ==
    << MoveCall("apex_fund", "start_trading", <<Input(0), Input(1)>>) >>

start_fund_trading(fund_id) ==
    Helper("start_fund_trading",
           << <<fund_id, "Fund not found">>, the_clock >>,
           fund_and_clock_inputs(fund_id),
           start_fund_trading_commands, None,
           "unit", "Start trading failed", "")

execute_fund_trade_inputs(who, fund_id) ==
    << Shared(fund_id, handle(fund_id), TRUE),
       Pure(Bcs("vector<u8>", "trade_type")),
       Pure(Bcs("u64", "input_amount")),
       Pure(Bcs("u64", "simulated_output")),
       Shared(CLOCK_ID, handle(CLOCK_ID), FALSE),
       Pure(Bcs("address", who)) >>

execute_fund_trade_commands ==
    << MoveCall("apex_fund", "execute_margin_trade", Inputs0to(4)),
       TransferObjects(<<NestedResult(0, 0)>>, Input(5)) >>

execute_fund_trade(fund_id) ==
    Helper("execute_fund_trade",
           << <<fund_id, "Fund not found">>, the_clock >>,
           execute_fund_trade_inputs(sender, fund_id),
           execute_fund_trade_commands, None,
           "first_created", "Execute trade failed", "No trade record created")

add_trade_profit_inputs(fund_id, profit_coin_id) ==
    << Shared(fund_id, handle(fund_id), TRUE),
       Owned(profit_coin_id, handle(profit_coin_id), Some(coin_type), None) >>

add_trade_profit_commands ==
    << MoveCall("apex_fund", "record_trade_profit", <<Input(0), Input(1)>>) >>

add_trade_profit(fund_id, profit_coin_id) ==
    Helper("add_trade_profit",
           << <<fund_id, "Fund not found">>, <<profit_coin_id, "Profit coin not found">> >>,
           add_trade_profit_inputs(fund_id, profit_coin_id),
           add_trade_profit_commands, None,
           "unit", "Add profit failed", "")

settle_fund_commands ==
    << MoveCall("apex_fund", "settle_fund", <<Input(0), Input(1)>>) >>

settle_fund(fund_id) ==
    Helper("settle_fund",
           << <<fund_id, "Fund not found">>, the_clock >>,
           fund_and_clock_inputs(fund_id),
           settle_fund_commands, None,
           "unit", "Settle fund failed", "")

withdraw_investor_shares_inputs(who, fund_id, position_id) ==
    << Shared(fund_id, handle(fund_id), TRUE),
       Owned(position_id, handle(position_id), Some(handle(position_id).type_tag),
             Some(handle(position_id).version)),
       Shared(CLOCK_ID, handle(CLOCK_ID), FALSE),
       Pure(Bcs("address", who)) >>

withdraw_investor_shares_commands ==
    << MoveCall("apex_fund", "withdraw_shares", Inputs0to(2)),
       TransferObjects(<<NestedResult(0, 0)>>, Input(3)) >>

withdraw_investor_shares(fund_id, position_id) ==
    Helper("withdraw_investor_shares",
           << <<fund_id, "Fund not found">>, <<position_id, "Position not found">>,
              the_clock >>,
           withdraw_investor_shares_inputs(sender, fund_id, position_id),
           withdraw_investor_shares_commands, None,
           "first_created", "Withdraw shares failed", "No receipt created")

withdraw_manager_fees_inputs(who, fund_id) ==
    << Shared(fund_id, handle(fund_id), TRUE),
       Pure(Bcs("address", who)) >>

withdraw_manager_fees_commands ==
    << MoveCall("apex_fund", "withdraw_manager_fees", <<Input(0)>>),
       TransferObjects(<<NestedResult(0, 0)>>, Input(1)) >>

withdraw_manager_fees(fund_id) ==
    Helper("withdraw_manager_fees",
           << <<fund_id, "Fund not found">> >>,
           withdraw_manager_fees_inputs(sender, fund_id),
           withdraw_manager_fees_commands, None,
           "unit", "Withdraw manager fees failed", "")

(***************************************************************************)
(* Payment, authorization, registry and meter helpers.                     *)
(***************************************************************************)
basic_flow == "Demo 1: Basic Flow"

register_service_inputs(config_id, payment_coin_id) ==
    << Shared(config_id, handle(config_id), TRUE),
       Pure(Bcs("vector<u8>", "name")),
       Pure(Bcs("vector<u8>", "description")),
       Pure(Bcs("u64", "price")),
       Owned(payment_coin_id, handle(payment_coin_id), Some(coin_type), None) >>

register_service_commands ==
    << MoveCall("apex_payments", "register_service", Inputs0to(4)) >>

register_service(config_id, payment_coin_id) ==
    Helper("register_service",
           << <<config_id, "Config not found">>, <<payment_coin_id, "Coin not found">> >>,
           register_service_inputs(config_id, payment_coin_id),
           register_service_commands, Some(<<basic_flow, "register_service">>),
           "shared_or_first", "Register service failed", "No service created")

purchase_access_inputs(who, config_id, service_id, payment_coin_id) ==
    << Shared(config_id, handle(config_id), TRUE),
       Shared(service_id, handle(service_id), TRUE),
       Owned(payment_coin_id, handle(payment_coin_id), Some(coin_type), None),
       Pure(Bcs("u64", "units")),
       Pure(Bcs("u64", "duration_ms")),
       Pure(Bcs("u64", "rate_limit")),
       Shared(CLOCK_ID, handle(CLOCK_ID), FALSE),
       Pure(Bcs("address", who)) >>

\* purchase_access_commands with the transfer taking its own result
purchase_access_commands_self_reference ==
    << MoveCall("apex_payments", "purchase_access", Inputs0to(6)),
       TransferObjects(<<NestedResult(1, 0)>>, Input(7)) >>

purchase_access_commands ==
    << MoveCall("apex_payments", "purchase_access", Inputs0to(6)),
       TransferObjects(<<NestedResult(0, 0)>>, Input(7)) >>

purchase_access(config_id, service_id, payment_coin_id) ==
    Helper("purchase_access",
           << <<config_id, "Config not found">>, <<service_id, "Service not found">>,
              <<payment_coin_id, "Coin not found">>, the_clock >>,
           purchase_access_inputs(sender, config_id, service_id, payment_coin_id),
           purchase_access_commands, Some(<<basic_flow, "purchase_access">>),
           "first_created", "Purchase failed", "No capability created")

\* purchase_access_with_meter ignores _meter_id and calls purchase_access
purchase_access_with_meter(config_id, service_id, meter_id, payment_coin_id) ==
    purchase_access(config_id, service_id, payment_coin_id)

use_access_inputs(service_id, cap_id) ==
    << MutRef(cap_id, handle(cap_id)),
       Shared(service_id, handle(service_id), FALSE),
       Pure(Bcs("u64", "units")),
       Shared(CLOCK_ID, handle(CLOCK_ID), FALSE) >>

use_access_commands ==
    << MoveCall("apex_payments", "use_access", Inputs0to(3)) >>

use_access(service_id, cap_id) ==
    Helper("use_access",
           << <<service_id, "Service not found">>, <<cap_id, "Capability not found">>,
              the_clock >>,
           use_access_inputs(service_id, cap_id),
           use_access_commands, Some(<<basic_flow, "use_access">>),
           "success_flag", "", "")

create_authorization_inputs(who) ==
    << Pure(Bcs("address", "agent_addr")),
       Pure(Bcs("vector<address>", "allowed_services")),
       Pure(Bcs("u64", "spend_limit_per_tx")),
       Pure(Bcs("u64", "daily_limit")),
       Pure(Bcs("u64", "duration_ms")),
       Shared(CLOCK_ID, handle(CLOCK_ID), FALSE),
       Pure(Bcs("address", who)) >>

create_authorization_commands ==
    << MoveCall("apex_payments", "create_authorization", Inputs0to(5)),
       TransferObjects(<<NestedResult(0, 0)>>, Input(6)) >>

create_authorization ==
    Helper("create_authorization",
           << the_clock >>,
           create_authorization_inputs(sender),
           create_authorization_commands, None,
           "first_created", "Create authorization failed", "No auth created")

authorized_purchase_inputs(who, auth_id, config_id, service_id, payment_coin_id) ==
    << MutRef(auth_id, handle(auth_id)),
       Shared(config_id, handle(config_id), TRUE),
       Shared(service_id, handle(service_id), TRUE),
       Owned(payment_coin_id, handle(payment_coin_id), Some(coin_type), None),
       Pure(Bcs("u64", "units")),
       Pure(Bcs("u64", "duration")),
       Pure(Bcs("u64", "rate_limit")),
       Shared(CLOCK_ID, handle(CLOCK_ID), FALSE),
       Pure(Bcs("address", who)) >>

authorized_purchase_commands ==
    << MoveCall("apex_payments", "authorized_purchase", Inputs0to(7)),
       TransferObjects(<<NestedResult(0, 0)>>, Input(8)) >>

authorized_purchase(auth_id, config_id, service_id, payment_coin_id) ==
    Helper("authorized_purchase",
           << <<auth_id, "Auth not found">>, <<config_id, "Config not found">>,
              <<service_id, "Service not found">>, <<payment_coin_id, "Coin not found">>,
              the_clock >>,
           authorized_purchase_inputs(sender, auth_id, config_id, service_id,
                                      payment_coin_id),
           authorized_purchase_commands, None,
           "first_created", "Authorized purchase failed", "No capability created")

create_registry_inputs(admin_cap_id) ==
    << Owned(admin_cap_id, handle(admin_cap_id), None, None) >>

create_registry_commands ==
    << MoveCall("apex_payments", "create_registry", <<Input(0)>>) >>

create_registry(admin_cap_id) ==
    Helper("create_registry",
           << <<admin_cap_id, "AdminCap not found">> >>,
           create_registry_inputs(admin_cap_id),
           create_registry_commands, None,
           "first_created", "Create registry failed", "No registry created")

list_service_inputs(registry_id, service_id) ==
    << Shared(registry_id, handle(registry_id), TRUE),
       Shared(service_id, handle(service_id), FALSE),
       Pure(Bcs("vector<u8>", "category")),
       Pure(Bcs("vector<u8>", "walrus_blob_123")),
       Shared(CLOCK_ID, handle(CLOCK_ID), FALSE) >>

list_service_commands ==
    << MoveCall("apex_payments", "list_service", Inputs0to(4)) >>

list_service(registry_id, service_id) ==
    Helper("list_service",
           << <<registry_id, "Registry not found">>, <<service_id, "Service not found">>,
              the_clock >>,
           list_service_inputs(registry_id, service_id),
           list_service_commands, None,
           "unit", "List service failed", "")

set_featured_inputs(registry_id, service_id) ==
    << Shared(registry_id, handle(registry_id), TRUE),
       Pure(Bcs("address", service_id)),
       Pure(Bcs("bool", "true")) >>

set_featured_commands ==
    << MoveCall("apex_payments", "set_featured", Inputs0to(2)) >>

set_featured(registry_id, service_id) ==
    Helper("set_featured",
           << <<registry_id, "Registry not found">> >>,
           set_featured_inputs(registry_id, service_id),
           set_featured_commands, None,
           "unit", "Set featured failed", "")

register_meter_inputs(who, admin_cap_id) ==
    << Owned(admin_cap_id, handle(admin_cap_id), None, None),
       Pure(Bcs("vector<u8>", "enclave_pubkey")),
       Pure(Bcs("vector<u8>", "pcr0:attestation_hash")),
       Pure(Bcs("vector<u8>", "Nautilus TEE Meter")),
       Pure(Bcs("address", who)) >>

\* register_meter_commands with the recipient one past the last input
register_meter_commands_past_the_end ==
    << MoveCall("apex_payments", "register_meter", Inputs0to(3)),
       TransferObjects(<<NestedResult(0, 0)>>, Input(5)) >>

register_meter_commands ==
    << MoveCall("apex_payments", "register_meter", Inputs0to(3)),
       TransferObjects(<<NestedResult(0, 0)>>, Input(4)) >>

register_meter(admin_cap_id) ==
    Helper("register_meter",
           << <<admin_cap_id, "AdminCap not found">> >>,
           register_meter_inputs(sender, admin_cap_id),
           register_meter_commands, None,
           "first_created", "Register meter failed", "No meter created")

(***************************************************************************)
(* The blocks the demo flows submit inline.                                *)
(***************************************************************************)
initialize_protocol_commands ==
    << MoveCall("apex_payments", "initialize_protocol", <<>>) >>

\* env.execute_ptb(vec![], [initialize_protocol]); extract_protocol_objects(&result, &env)
initialize_protocol ==
    Helper("initialize_protocol", <<>>, <<>>,
           initialize_protocol_commands, None,
           "extract_protocol_objects", "", "")

initialize_seal_commands ==
    << MoveCall("apex_seal", "initialize_seal", <<>>) >>

initialize_seal ==
    Helper("initialize_seal", <<>>, <<>>,
           initialize_seal_commands, None,
           "ignore_result", "", "")

(***************************************************************************)
(* The environment's own operations and the trace file.  Each call that    *)
(* returns a Result may fail.                                              *)
(***************************************************************************)
\* a call outside this program that either goes through or returns Err
External(op, kind, msg, applied, val) ==
    \E went \in BOOLEAN :
        /\ deviated => went
        /\ deviated' = (deviated \/ ~went)
        /\ IF went
           THEN /\ objects' = applied.objects
                /\ sender' = applied.sender
                /\ nextId' = applied.nextId
                /\ consumed' = applied.consumed
                /\ ret' = Return(op, {}, Ok(val))
           ELSE /\ ret' = Return(op, {}, Err(kind, msg))
                /\ UNCHANGED <<objects, sender, nextId, consumed>>
        /\ UNCHANGED <<traces, file, engine, classified, sink>>

\* the environment as it stands
Env == [objects |-> objects, sender |-> sender, nextId |-> nextId, consumed |-> consumed]

\* SimulationEnvironment::new()?
new_environment ==
    External("SimulationEnvironment::new", "environment", "new failed",
             [objects |-> NoObjects, sender |-> DEFAULT_SENDER, nextId |-> FirstId,
              consumed |-> {}],
             <<>>)

\* env.set_sender(who)
set_sender(who) ==
    /\ sender' = who
    /\ ret' = Return("set_sender", {}, Ok(<<>>))
    /\ UNCHANGED <<objects, nextId, consumed, traces, file, engine, deviated, classified, sink>>

\* env.compile_and_deploy(&apex_path)?: publishes the package, creates no object
compile_and_deploy ==
    External("compile_and_deploy", "deploy", "deploy failed", Env, <<>>)

\* env.create_sui_coin(amount)?: a fresh coin owned by the sender
create_sui_coin ==
    External("create_sui_coin", "environment", "coin failed",
             [Env EXCEPT !.objects = Put(objects, nextId,
                                         StoredObject(1, 1, coin_type, FALSE, sender)),
                         !.nextId = nextId + 1],
             <<nextId>>)

\* env.load_object_from_data("0x6", clock_bytes, Some("0x2::clock::Clock"), true, false, 1)?
setup_clock ==
    External("setup_clock", "environment", "load failed",
             [Env EXCEPT !.objects = Put(objects, CLOCK_ID,
                                         StoredObject(1, CLOCK_VERSION, clock_type, TRUE,
                                                      "Shared"))],
             <<>>)

\* save_traces emptying the log once it has written it
save_traces_clearing ==
    /\ \E written \in BOOLEAN :
          /\ deviated => written
          /\ deviated' = (deviated \/ ~written)
          /\ file' = IF written THEN Some(traces) ELSE file
          /\ sink' = IF written THEN Append(sink, traces) ELSE sink
          /\ traces' = IF written THEN <<>> ELSE traces
          /\ ret' = Return("save_traces", {},
                           IF written THEN Ok(<<>>) ELSE Err("io", "write failed"))
    /\ UNCHANGED <<objects, sender, nextId, consumed, engine, classified>>

\* get_traces().lock() then traces.save_to_file("ptb_traces.json")?: the write may fail
save_traces ==
    /\ \E written \in BOOLEAN :
          /\ deviated => written
          /\ deviated' = (deviated \/ ~written)
          /\ file' = IF written THEN Some(traces) ELSE file
          /\ sink' = IF written THEN Append(sink, traces) ELSE sink
          /\ ret' = Return("save_traces", {},
                           IF written THEN Ok(<<>>) ELSE Err("io", "write failed"))
    /\ UNCHANGED <<objects, sender, nextId, consumed, traces, engine, classified>>

(***************************************************************************)
(* main: the five demo flows one after the other, then save_traces.  A     *)
(* flow is the sequence of its calls; a call followed by ? returns its Err *)
(* from the flow and from main.                                            *)
(***************************************************************************)
\* let bind = op(args)?;
Let(label, bind, op, args) ==
    [label |-> label, op |-> op, args |-> args, bind |-> bind, try |-> TRUE]

\* op(args); let _ = op(args); match op(args) { Ok(_) => .., Err(_) => .. }:
\* the flow goes on whatever op returns
Do(label, op, args) ==
    [label |-> label, op |-> op, args |-> args, bind |-> <<>>, try |-> FALSE]

\* demo_basic_flow loading the clock after the purchase in place of before it
demo_basic_flow_clock_late ==
    << Let("Demo1New", <<>>, "new", <<>>),
       Do("Demo1SetAdmin", "set_sender", <<ADMIN>>),
       Let("Demo1Deploy", <<>>, "compile_and_deploy", <<>>),
       Let("Demo1Initialize", <<"config_id", "admin_cap_id">>, "initialize_protocol", <<>>),
       Do("Demo1SetProvider", "set_sender", <<PROVIDER>>),
       Let("Demo1ProviderCoin", <<"coin_id">>, "create_sui_coin", <<>>),
       Let("Demo1RegisterService", <<"service_id">>, "register_service",
           <<"config_id", "coin_id">>),
       Do("Demo1SetAgent", "set_sender", <<AGENT>>),
       Let("Demo1AgentCoin", <<"coin_id">>, "create_sui_coin", <<>>),
       Let("Demo1PurchaseAccess", <<"cap_id">>, "purchase_access",
           <<"config_id", "service_id", "coin_id">>),
       Let("Demo1SetupClock", <<>>, "setup_clock", <<>>),
       Let("Demo1UseAccess", <<>>, "use_access", <<"service_id", "cap_id">>) >>

demo_basic_flow ==
    << Let("Demo1New", <<>>, "new", <<>>),
       Do("Demo1SetAdmin", "set_sender", <<ADMIN>>),
       Let("Demo1Deploy", <<>>, "compile_and_deploy", <<>>),
       Let("Demo1Initialize", <<"config_id", "admin_cap_id">>, "initialize_protocol", <<>>),
       Do("Demo1SetProvider", "set_sender", <<PROVIDER>>),
       Let("Demo1ProviderCoin", <<"coin_id">>, "create_sui_coin", <<>>),
       Let("Demo1RegisterService", <<"service_id">>, "register_service",
           <<"config_id", "coin_id">>),
       Do("Demo1SetAgent", "set_sender", <<AGENT>>),
       Let("Demo1SetupClock", <<>>, "setup_clock", <<>>),
       Let("Demo1AgentCoin", <<"coin_id">>, "create_sui_coin", <<>>),
       Let("Demo1PurchaseAccess", <<"cap_id">>, "purchase_access",
           <<"config_id", "service_id", "coin_id">>),
       Let("Demo1UseAccess", <<>>, "use_access", <<"service_id", "cap_id">>) >>

demo_delegated_authorization ==
    << Let("Demo2New", <<>>, "new", <<>>),
       Do("Demo2SetAdmin", "set_sender", <<ADMIN>>),
       Let("Demo2Deploy", <<>>, "compile_and_deploy", <<>>),
       Let("Demo2Initialize", <<"config_id", "admin_cap_id">>, "initialize_protocol", <<>>),
       Do("Demo2SetProvider", "set_sender", <<PROVIDER>>),
       Let("Demo2ProviderCoin", <<"coin_id">>, "create_sui_coin", <<>>),
       Let("Demo2RegisterService", <<"service_id">>, "register_service",
           <<"config_id", "coin_id">>),
       Let("Demo2SetupClock", <<>>, "setup_clock", <<>>),
       Do("Demo2SetOwner", "set_sender", <<OWNER>>),
       Let("Demo2CreateAuthorization", <<"auth_id">>, "create_authorization", <<>>),
       Do("Demo2SetAgent", "set_sender", <<AGENT>>),
       Let("Demo2AgentCoin", <<"coin_id">>, "create_sui_coin", <<>>),
       Let("Demo2AuthorizedPurchase", <<"cap_id">>, "authorized_purchase",
           <<"auth_id", "config_id", "service_id", "coin_id">>) >>

demo_service_registry ==
    << Let("Demo3New", <<>>, "new", <<>>),
       Do("Demo3SetAdmin", "set_sender", <<ADMIN>>),
       Let("Demo3Deploy", <<>>, "compile_and_deploy", <<>>),
       Let("Demo3Initialize", <<"config_id", "admin_cap_id">>, "initialize_protocol", <<>>),
       Let("Demo3SetupClock", <<>>, "setup_clock", <<>>),
       Let("Demo3CreateRegistry", <<"registry_id">>, "create_registry", <<"admin_cap_id">>),
       Do("Demo3SetProvider", "set_sender", <<PROVIDER>>),
       Let("Demo3Coin1", <<"coin_id">>, "create_sui_coin", <<>>),
       Let("Demo3RegisterOracle", <<"service_id">>, "register_service",
           <<"config_id", "coin_id">>),
       Let("Demo3ListOracle", <<>>, "list_service", <<"registry_id", "service_id">>),
       Let("Demo3Coin2", <<"coin_id">>, "create_sui_coin", <<>>),
       Let("Demo3RegisterAi", <<"ai_id">>, "register_service", <<"config_id", "coin_id">>),
       Let("Demo3ListAi", <<>>, "list_service", <<"registry_id", "ai_id">>),
       Do("Demo3SetAdminAgain", "set_sender", <<ADMIN>>),
       Let("Demo3SetFeatured", <<>>, "set_featured", <<"registry_id", "service_id">>),
       Do("Demo3SetAgent", "set_sender", <<AGENT>>),
       Let("Demo3AgentCoin", <<"coin_id">>, "create_sui_coin", <<>>),
       Let("Demo3PurchaseAccess", <<"cap_id">>, "purchase_access",
           <<"config_id", "service_id", "coin_id">>),
       Let("Demo3UseAccess", <<>>, "use_access", <<"service_id", "cap_id">>) >>

demo_nautilus_seal_verification ==
    << Let("Demo4New", <<>>, "new", <<>>),
       Do("Demo4SetAdmin", "set_sender", <<ADMIN>>),
       Let("Demo4Deploy", <<>>, "compile_and_deploy", <<>>),
       Let("Demo4Initialize", <<"config_id", "admin_cap_id">>, "initialize_protocol", <<>>),
       Let("Demo4SetupClock", <<>>, "setup_clock", <<>>),
       Let("Demo4RegisterMeter", <<"meter_id">>, "register_meter", <<"admin_cap_id">>),
       Do("Demo4SetProvider", "set_sender", <<PROVIDER>>),
       Let("Demo4ProviderCoin", <<"coin_id">>, "create_sui_coin", <<>>),
       Let("Demo4RegisterService", <<"service_id">>, "register_service",
           <<"config_id", "coin_id">>),
       Do("Demo4SetAdminAgain", "set_sender", <<ADMIN>>),
       Do("Demo4InitializeSeal", "initialize_seal", <<>>),
       Do("Demo4SetAgent", "set_sender", <<AGENT>>),
       Let("Demo4AgentCoin", <<"coin_id">>, "create_sui_coin", <<>>),
       Let("Demo4PurchaseAccess", <<"cap_id">>, "purchase_access_with_meter",
           <<"config_id", "service_id", "meter_id", "coin_id">>),
       Let("Demo4UseAccess", <<>>, "use_access", <<"service_id", "cap_id">>) >>

demo_agentic_hedge_fund ==
    << Let("Demo5New", <<>>, "new", <<>>),
       Do("Demo5SetAdmin", "set_sender", <<ADMIN>>),
       Let("Demo5Deploy", <<>>, "compile_and_deploy", <<>>),
       Let("Demo5Initialize", <<"config_id", "admin_cap_id">>, "initialize_protocol", <<>>),
       Let("Demo5SetupClock", <<>>, "setup_clock", <<>>),
       Let("Demo5AdminCoin", <<"coin_id">>, "create_sui_coin", <<>>),
       Let("Demo5RegisterService", <<"service_id">>, "register_service",
           <<"config_id", "coin_id">>),
       Do("Demo5SetManager", "set_sender", <<FUND_MANAGER>>),
       Let("Demo5ManagerCoin", <<"coin_id">>, "create_sui_coin", <<>>),
       Let("Demo5CreateFund", <<"fund_id">>, "create_hedge_fund",
           <<"config_id", "service_id", "coin_id">>),
       Do("Demo5SetInvestor", "set_sender", <<INVESTOR_A>>),
       Let("Demo5EntryCoin", <<"coin_id">>, "create_sui_coin", <<>>),
       Let("Demo5DepositCoin", <<"deposit_coin_id">>, "create_sui_coin", <<>>),
       Let("Demo5JoinFund", <<"position_a">>, "join_fund",
           <<"fund_id", "config_id", "service_id", "coin_id", "deposit_coin_id">>),
       Do("Demo5SetManagerAgain", "set_sender", <<FUND_MANAGER>>),
       Let("Demo5StartTrading", <<>>, "start_fund_trading", <<"fund_id">>),
       Let("Demo5Trade1", <<>>, "execute_fund_trade", <<"fund_id">>),
       Let("Demo5Trade2", <<>>, "execute_fund_trade", <<"fund_id">>),
       Let("Demo5Trade3", <<>>, "execute_fund_trade", <<"fund_id">>),
       Let("Demo5ProfitCoin", <<"coin_id">>, "create_sui_coin", <<>>),
       Let("Demo5AddProfit", <<>>, "add_trade_profit", <<"fund_id", "coin_id">>),
       Let("Demo5Settle", <<>>, "settle_fund", <<"fund_id">>),
       Do("Demo5SetInvestorAgain", "set_sender", <<INVESTOR_A>>),
       Do("Demo5Withdraw", "withdraw_investor_shares", <<"fund_id", "position_a">>) >>

main ==
    demo_basic_flow \o demo_delegated_authorization \o demo_service_registry
        \o demo_nautilus_seal_verification \o demo_agentic_hedge_fund
        \o << Let("MainSave", <<>>, "save_traces", <<>>) >>

\* the ids a flow holds: 0 until bound
NoLocals ==
    [config_id |-> 0, admin_cap_id |-> 0, service_id |-> 0, ai_id |-> 0, coin_id |-> 0,
     deposit_coin_id |-> 0, cap_id |-> 0, auth_id |-> 0, registry_id |-> 0, meter_id |-> 0,
     fund_id |-> 0, position_a |-> 0]

\* let (a, b) = ..: the names take the returned ids
Bind(l, names, val) ==
    [f \in DOMAIN l |->
        IF \E i \in DOMAIN names : names[i] = f
        THEN val[CHOOSE i \in DOMAIN names : names[i] = f]
        ELSE l[f]]

\* the statement main is at, and the one after it
Running == pc \notin {"done", "failed"}

\* where in main each statement is
LabelIndex ==
    [l \in {main[i].label : i \in DOMAIN main} |->
        CHOOSE i \in DOMAIN main : main[i].label = l]

Index == LabelIndex[pc]

Here == main[Index]

After == IF Index = Len(main) THEN "done" ELSE main[Index + 1].label

\* the i-th argument of the call main is at
Arg(i) == locals[Here.args[i]]

\* Run without the ?: main goes on after an Err
Run_on(op, Call) ==
    /\ Running
    /\ Here.op = op
    /\ Call
    /\ pc' = After
    /\ locals' = IF op = "new" THEN NoLocals
                 ELSE IF ret'.ok THEN Bind(locals, Here.bind, ret'.val)
                 ELSE locals
    /\ UNCHANGED <<mutex, threads>>

\* main at a call of op: the call is made; on Ok, or when the statement has no
\* ?, main goes on to the next statement, else it returns the Err
Run(op, Call) ==
    /\ Running
    /\ Here.op = op
    /\ Call
    /\ pc' = IF ret'.ok \/ ~Here.try THEN After ELSE "failed"
    /\ locals' = IF op = "new" THEN NoLocals
                 ELSE IF ret'.ok THEN Bind(locals, Here.bind, ret'.val)
                 ELSE locals
    /\ UNCHANGED <<mutex, threads>>

RunNew == Run("new", new_environment)

RunSetSender == Run("set_sender", set_sender(Here.args[1]))

RunCompileAndDeploy == Run("compile_and_deploy", compile_and_deploy)

RunInitializeProtocol == Run("initialize_protocol", initialize_protocol)

RunInitializeSeal == Run("initialize_seal", initialize_seal)

RunCreateSuiCoin == Run("create_sui_coin", create_sui_coin)

RunSetupClock == Run("setup_clock", setup_clock)

RunRegisterService == Run("register_service", register_service(Arg(1), Arg(2)))

RunPurchaseAccess == Run("purchase_access", purchase_access(Arg(1), Arg(2), Arg(3)))

RunPurchaseAccessWithMeter ==
    Run("purchase_access_with_meter",
        purchase_access_with_meter(Arg(1), Arg(2), Arg(3), Arg(4)))

RunUseAccess == Run("use_access", use_access(Arg(1), Arg(2)))

RunCreateAuthorization == Run("create_authorization", create_authorization)

RunAuthorizedPurchase ==
    Run("authorized_purchase", authorized_purchase(Arg(1), Arg(2), Arg(3), Arg(4)))

RunCreateRegistry == Run("create_registry", create_registry(Arg(1)))

RunListService == Run("list_service", list_service(Arg(1), Arg(2)))

RunSetFeatured == Run("set_featured", set_featured(Arg(1), Arg(2)))

RunRegisterMeter == Run("register_meter", register_meter(Arg(1)))

RunCreateHedgeFund == Run("create_hedge_fund", create_hedge_fund(Arg(1), Arg(2), Arg(3)))

RunJoinFund == Run("join_fund", join_fund(Arg(1), Arg(2), Arg(3), Arg(4), Arg(5)))

RunStartFundTrading == Run("start_fund_trading", start_fund_trading(Arg(1)))

RunExecuteFundTrade == Run("execute_fund_trade", execute_fund_trade(Arg(1)))

RunAddTradeProfit == Run("add_trade_profit", add_trade_profit(Arg(1), Arg(2)))

RunSettleFund == Run("settle_fund", settle_fund(Arg(1)))

RunWithdrawInvestorShares ==
    Run("withdraw_investor_shares", withdraw_investor_shares(Arg(1), Arg(2)))

RunSaveTraces == Run("save_traces", save_traces)

Threads == 1..MaxThreads

\* a thread at pc: the entry it is recording, if any, and the log as it saw
\* it on taking the lock
Thread(pc_, entry, seen) == [pc |-> pc_, entry |-> entry, seen |-> seen]

Init ==
    /\ objects = NoObjects
    /\ sender = DEFAULT_SENDER
    /\ nextId = FirstId
    /\ consumed = {}
    /\ traces = <<>>
    /\ file = None
    /\ engine = [n |-> 0, inputs |-> <<>>, commands |-> <<>>, at |-> NoObjects,
                 sender |-> DEFAULT_SENDER,
                 result |-> [success |-> FALSE, effects |-> None, error |-> None]]
    /\ ret = Return("", {}, Ok(<<>>))
    /\ pc = main[1].label
    /\ locals = NoLocals
    /\ deviated = FALSE
    /\ classified = [first |-> NoObjects, last |-> None]
    /\ sink = <<>>
    /\ mutex = [holder |-> 0, poisoned |-> FALSE]
    /\ threads = [t \in Threads |-> Thread("start", None, <<>>)]

Next ==
    \/ RunNew
    \/ RunSetSender
    \/ RunCompileAndDeploy
    \/ RunInitializeProtocol
    \/ RunInitializeSeal
    \/ RunCreateSuiCoin
    \/ RunSetupClock
    \/ RunRegisterService
    \/ RunPurchaseAccess
    \/ RunPurchaseAccessWithMeter
    \/ RunUseAccess
    \/ RunCreateAuthorization
    \/ RunAuthorizedPurchase
    \/ RunCreateRegistry
    \/ RunListService
    \/ RunSetFeatured
    \/ RunRegisterMeter
    \/ RunCreateHedgeFund
    \/ RunJoinFund
    \/ RunStartFundTrading
    \/ RunExecuteFundTrade
    \/ RunAddTradeProfit
    \/ RunSettleFund
    \/ RunWithdrawInvestorShares
    \/ RunSaveTraces

Spec == Init /\ [][Next]_vars

(***************************************************************************)
(* The trace recorder under concurrent callers.  DEMO_TRACES is a static   *)
(* Mutex<DemoTraces>: record_trace and save_traces can be called from any  *)
(* thread.  Each thread makes one call, of record_trace with an entry of   *)
(* its own or of save_traces (calls made one after the other by the same   *)
(* thread are among the interleavings of calls made by several).  A call   *)
(* blocks until the lock is free, and lock() is Err once a thread has      *)
(* panicked with the guard in hand.  The one place where that can happen   *)
(* is the println! of save_traces, which panics when stdout cannot be      *)
(* written.                                                                *)
(***************************************************************************)
\* the state of the recorder's callers is all that changes
main_vars ==
    <<objects, sender, nextId, consumed, engine, ret, pc, locals, deviated, classified>>

\* record_trace(trace): if let Ok(mut traces) = get_traces().lock() { .. }
\* with the lock poisoned the body is skipped and the call returns
record_trace_lock(t) ==
    /\ threads[t].pc = "start"
    /\ mutex.holder = 0
    /\ IF mutex.poisoned
       THEN /\ threads' = [threads EXCEPT ![t] = Thread("returned", Some(t), <<>>)]
            /\ UNCHANGED mutex
       ELSE /\ threads' = [threads EXCEPT ![t] = Thread("add_trace", Some(t), <<>>)]
            /\ mutex' = [mutex EXCEPT !.holder = t]
    /\ UNCHANGED <<traces, file, sink>>
    /\ UNCHANGED main_vars

\* traces.add_trace(trace): self.traces.push(trace); the guard is dropped
add_trace(t) ==
    /\ threads[t].pc = "add_trace"
    /\ traces' = Append(traces, Unwrap(threads[t].entry))
    /\ mutex' = [mutex EXCEPT !.holder = 0]
    /\ threads' = [threads EXCEPT ![t].pc = "returned"]
    /\ UNCHANGED <<file, sink>>
    /\ UNCHANGED main_vars

\* save_traces taking its snapshot without the lock
save_traces_unlocked(t) ==
    /\ threads[t].pc = "start"
    /\ threads' = [threads EXCEPT ![t] = Thread("save_to_file", None, traces)]
    /\ UNCHANGED <<mutex, traces, file, sink>>
    /\ UNCHANGED main_vars

\* save_traces(): if let Ok(traces) = get_traces().lock() { .. } Ok(())
\* with the lock poisoned nothing is written and the call returns Ok(())
save_traces_lock(t) ==
    /\ threads[t].pc = "start"
    /\ mutex.holder = 0
    /\ IF mutex.poisoned
       THEN /\ threads' = [threads EXCEPT ![t] = Thread("returned", None, <<>>)]
            /\ UNCHANGED mutex
       ELSE /\ threads' = [threads EXCEPT ![t] = Thread("save_to_file", None, traces)]
            /\ mutex' = [mutex EXCEPT !.holder = t]
    /\ UNCHANGED <<traces, file, sink>>
    /\ UNCHANGED main_vars

\* save_to_file emptying the log once it is written
save_to_file_draining(t) ==
    /\ threads[t].pc = "save_to_file"
    /\ file' = Some(traces)
    /\ sink' = Append(sink, traces)
    /\ traces' = <<>>
    /\ threads' = [threads EXCEPT ![t].pc = "println"]
    /\ UNCHANGED mutex
    /\ UNCHANGED main_vars

\* traces.save_to_file("ptb_traces.json")?: to_string_pretty(self), then
\* fs::write(path, json); on Err the ? returns it and the guard is dropped
save_to_file(t) ==
    /\ threads[t].pc = "save_to_file"
    /\ \E written \in BOOLEAN :
          IF written
          THEN /\ file' = Some(traces)
               /\ sink' = Append(sink, traces)
               /\ threads' = [threads EXCEPT ![t].pc = "println"]
               /\ UNCHANGED mutex
          ELSE /\ threads' = [threads EXCEPT ![t].pc = "returned"]
               /\ mutex' = [mutex EXCEPT !.holder = IF @ = t THEN 0 ELSE @]
               /\ UNCHANGED <<file, sink>>
    /\ UNCHANGED traces
    /\ UNCHANGED main_vars

\* println!("PTB traces saved to: ptb_traces.json"), the guard still in
\* hand: it prints and the guard is dropped, or it panics and the guard is
\* dropped by the unwinding, which poisons the lock
println(t) ==
    /\ threads[t].pc = "println"
    /\ \E printed \in BOOLEAN :
          IF printed
          THEN /\ threads' = [threads EXCEPT ![t].pc = "returned"]
               /\ mutex' = [mutex EXCEPT !.holder = IF @ = t THEN 0 ELSE @]
          ELSE /\ threads' = [threads EXCEPT ![t].pc = "panicked"]
               /\ mutex' = [holder |-> IF mutex.holder = t THEN 0 ELSE mutex.holder,
                             poisoned |-> TRUE]
    /\ UNCHANGED <<traces, file, sink>>
    /\ UNCHANGED main_vars

NextRecorder ==
    \E t \in Threads :
        \/ record_trace_lock(t)
        \/ add_trace(t)
        \/ save_traces_lock(t)
        \/ save_to_file(t)
        \/ println(t)

SpecRecorder == Init /\ [][NextRecorder]_vars

(***************************************************************************)
(* Properties.                                                             *)
(***************************************************************************)
\* the block of the last call of env.execute_ptb
ObjectInputs == {i \in DOMAIN engine.inputs : IsObjectInput(engine.inputs[i])}

VersionedInputs ==
    {i \in DOMAIN engine.inputs : engine.inputs[i].kind \in {"Shared", "MutRef"}}

\* the arguments of command k (counted from 1) of the last block
CommandArgs(k) == Range(ArgsOf(engine.commands[k]))

C7_MissingObjectIsNotFound ==
    [][(\E id \in ret'.uses : ~has_object(objects, id))
          => /\ ret'.kind = "not_found"
             /\ engine' = engine
             /\ traces' = traces
             /\ objects' = objects]_vars

\* a helper returned not-found for an object the store lacks, after blocks had
\* been submitted and traced
C7_Witness ==
    /\ ret.kind = "not_found"
    /\ \E id \in ret.uses : ~has_object(objects, id)
    /\ engine.n > 0
    /\ traces # <<>>

C9_ConsumedObjectIsNotResubmitted ==
    [][(\E id \in ret'.uses : id \in consumed)
          => /\ ret'.kind = "not_found"
             /\ engine' = engine]_vars

\* a helper was called with the id of an object an earlier block consumed
C9_Witness ==
    /\ ret.kind = "not_found"
    /\ \E id \in ret.uses : id \in consumed /\ has_object(engine.at, id)

\* C10: every object input of a block that reaches the engine carries the
\* bytes, and the version when it carries one, that the store held for its
\* object when the block was submitted.
C10_InputsCarryTheCurrentSnapshot ==
    \A i \in ObjectInputs :
        LET inp == engine.inputs[i]
        IN /\ has_object(engine.at, inp.id)
           /\ inp.bytes = engine.at[inp.id].bcs_bytes
           /\ IsSome(inp.version) => inp.version = Some(engine.at[inp.id].version)

\* a block reached the engine with the snapshot an earlier block left of an
\* object it had received before
C10_Witness ==
    /\ engine.n > 1
    /\ \E i \in ObjectInputs :
          /\ has_object(engine.at, engine.inputs[i].id)
          /\ engine.inputs[i].bytes = engine.at[engine.inputs[i].id].bcs_bytes
          /\ engine.inputs[i].bytes > 1

(***************************************************************************)
(* The result of a block and what a helper picks out of it.                *)
(***************************************************************************)
\* the ids the last result lists as created
Created == IF IsSome(engine.result.effects) THEN Unwrap(engine.result.effects).created ELSE <<>>

\* the last trace of the log
LastTrace == traces[Len(traces)]

\* C11: a block whose result has success = false gives the caller no id: the
\* helper returns no object id, main binds none, the store is as it was, and
\* the trace recorded for the block lists no created and no mutated object.
C11_FailedResultIsANoOp ==
    [][(engine'.n # engine.n /\ ~engine'.result.success) =>
          /\ ret'.val = <<>>
          /\ locals' = locals
          /\ objects' = objects
          /\ traces' # traces =>
                /\ traces'[Len(traces')].outputs.created_objects = <<>>
                /\ traces'[Len(traces')].outputs.mutated_objects = <<>>]_vars

\* purchase_access has had a failed result that lists a created id, and has
\* recorded its trace
C11_Witness ==
    /\ ret.op = "purchase_access"
    /\ ret.kind = "execution"
    /\ ~engine.result.success
    /\ Created # <<>>
    /\ traces # <<>>
    /\ ~LastTrace.outputs.success

\* the store holds id with a type of the given name
HasTypeName(id, name) ==
    has_object(objects, id) /\ objects[id].type_tag.name = name

\* the last call was of helper op, and its block came back with effects
Classified(op) ==
    /\ ret.op = op
    /\ ret.kind # "not_found"
    /\ engine.result.success
    /\ IsSome(engine.result.effects)

\* C12: when join_fund's result lists at least one created object whose
\* stored type is named InvestorPosition, join_fund returns the earliest of
\* them in created order, whatever else the list holds.
C12_EarliestOfTheRequestedType ==
    Classified("join_fund") =>
        \A i \in DOMAIN Created :
            (/\ HasTypeName(Created[i], "InvestorPosition")
             /\ \A j \in 1..(i - 1) : ~HasTypeName(Created[j], "InvestorPosition"))
            => ret.ok /\ ret.val = <<Created[i]>>

\* join_fund had a result with two InvestorPosition objects and returned
\* the first
C12_Witness ==
    /\ Classified("join_fund")
    /\ Len(Created) = 2
    /\ HasTypeName(Created[1], "InvestorPosition")
    /\ HasTypeName(Created[2], "InvestorPosition")
    /\ ret.val = <<Created[1]>>

\* the store holds id as a shared object
IsSharedNow(id) == has_object(objects, id) /\ objects[id].is_shared

NoneShared == \A i \in DOMAIN Created : ~IsSharedNow(Created[i])

NoPosition == \A i \in DOMAIN Created : ~HasTypeName(Created[i], "InvestorPosition")

\* the helpers that look for a shared object among the created ones
PreferShared == {"create_hedge_fund", "register_service"}

\* C13 as stated: whenever the search finds nothing in a non-empty created
\* list, the helper returns the first element of created.
C13_FallbackIsTheFirstCreated ==
    /\ \A op \in PreferShared :
          (Classified(op) /\ Created # <<>> /\ NoneShared)
          => ret.ok /\ ret.val = <<Created[1]>>
    /\ (Classified("initialize_protocol") /\ Created # <<>> /\ NoneShared)
       => ret.ok /\ ret.val[1] = Created[1]
    /\ (Classified("join_fund") /\ Created # <<>> /\ NoPosition)
       => ret.ok /\ ret.val = <<Created[1]>>

\* C13, amended: when no created object is shared and created is not empty,
\* create_hedge_fund and register_service return the first element of
\* created, and so does extract_protocol_objects for the config unless
\* created has fewer than two elements, which is an error; when no created
\* object is an InvestorPosition, join_fund returns the last element.
C13_FallbackIsFirstOrLast ==
    /\ \A op \in PreferShared :
          (Classified(op) /\ Created # <<>> /\ NoneShared)
          => ret.ok /\ ret.val = <<Created[1]>>
    /\ (Classified("initialize_protocol") /\ Created # <<>> /\ NoneShared)
       => IF Len(Created) < 2
          THEN ~ret.ok /\ ret.kind = "classification"
          ELSE ret.ok /\ ret.val[1] = Created[1]
    /\ (Classified("join_fund") /\ Created # <<>> /\ NoPosition)
       => ret.ok /\ ret.val = <<Created[Len(Created)]>>

\* join_fund found no InvestorPosition among two created objects and
\* returned the second
C13_Witness ==
    /\ Classified("join_fund")
    /\ Len(Created) = 2
    /\ NoPosition
    /\ ret.val = <<Created[2]>>

\* Created[i] is the earliest created object the store holds as shared
EarliestShared(i) ==
    /\ IsSharedNow(Created[i])
    /\ \A j \in 1..(i - 1) : ~IsSharedNow(Created[j])

\* C14 as stated: every helper that prefers a shared object returns the
\* earliest created object the store holds as shared, if there is one.
C14_EarliestSharedIsReturned ==
    \A op \in PreferShared \cup {"initialize_protocol"} :
        Classified(op) =>
            \A i \in DOMAIN Created :
                EarliestShared(i) => ret.ok /\ ret.val[1] = Created[i]

\* C14, amended: create_hedge_fund, register_service and, given at least
\* two created objects, extract_protocol_objects return the earliest
\* created object that the store holds as shared, if there is one; an object
\* the store does not hold counts as not shared.  With fewer than two
\* created objects extract_protocol_objects returns an error.
C14_EarliestSharedOfEnough ==
    /\ \A op \in PreferShared :
          Classified(op) =>
              \A i \in DOMAIN Created :
                  EarliestShared(i) => ret.ok /\ ret.val = <<Created[i]>>
    /\ Classified("initialize_protocol") =>
          IF Len(Created) < 2
          THEN ~ret.ok /\ ret.kind = "classification"
          ELSE \A i \in DOMAIN Created :
                   EarliestShared(i) => ret.ok /\ ret.val[1] = Created[i]

\* register_service passed over a created object the store does not hold
\* and returned the shared one after it
C14_Witness ==
    /\ Classified("register_service")
    /\ Len(Created) = 2
    /\ ~has_object(objects, Created[1])
    /\ IsSharedNow(Created[2])
    /\ ret.val = <<Created[2]>>

\* the helpers that return an object picked out of result.effects.created
Classifying ==
    { "initialize_protocol", "register_service", "purchase_access", "create_authorization",
      "authorized_purchase", "create_registry", "register_meter", "create_hedge_fund",
      "join_fund", "execute_fund_trade", "withdraw_investor_shares" }

\* C15: a helper whose block succeeded with nothing created, or without
\* effects, returns an error and no object id, whichever way it picks.
C15_NothingCreatedIsAnError ==
    \A op \in Classifying :
        (ret.op = op /\ ret.kind # "not_found" /\ engine.result.success /\ Created = <<>>)
        => /\ ~ret.ok
           /\ ret.val = <<>>
           /\ ret.kind = IF IsSome(engine.result.effects)
                         THEN "classification" ELSE "no_effects"

\* purchase_access has read a successful result whose created list is empty
C15_Witness ==
    /\ Classified("purchase_access")
    /\ Created = <<>>
    /\ ret.kind = "classification"
    /\ ret.err = "No capability created"

\* C16 as stated: when the search finds nothing in a non-empty created
\* list, the helper returns an error and no id.
C16_NoMatchIsAnError ==
    /\ \A op \in PreferShared \cup {"initialize_protocol"} :
          (Classified(op) /\ Created # <<>> /\ NoneShared) => ~ret.ok /\ ret.val = <<>>
    /\ (Classified("join_fund") /\ Created # <<>> /\ NoPosition)
       => ~ret.ok /\ ret.val = <<>>

\* C16, amended: when the search finds nothing in a non-empty created list
\* the helper returns no error but the id of a created object that does not
\* meet the search: one that is not shared from create_hedge_fund,
\* register_service and (given two created objects or more)
\* extract_protocol_objects, one that is no InvestorPosition from join_fund.
C16_NoMatchIsAGuess ==
    /\ \A op \in PreferShared :
          (Classified(op) /\ Created # <<>> /\ NoneShared)
          => /\ ret.ok
             /\ \E i \in DOMAIN Created : ret.val = <<Created[i]>>
             /\ ~IsSharedNow(ret.val[1])
    /\ (Classified("initialize_protocol") /\ Len(Created) >= 2 /\ NoneShared)
       => /\ ret.ok
          /\ \E i \in DOMAIN Created : ret.val[1] = Created[i]
          /\ ~IsSharedNow(ret.val[1])
    /\ (Classified("join_fund") /\ Created # <<>> /\ NoPosition)
       => /\ ret.ok
          /\ \E i \in DOMAIN Created : ret.val = <<Created[i]>>
          /\ ~HasTypeName(ret.val[1], "InvestorPosition")

\* create_hedge_fund found no shared object among the created ones and
\* returned an owned one as the fund
C16_Witness ==
    /\ Classified("create_hedge_fund")
    /\ Created # <<>>
    /\ NoneShared
    /\ ret.ok
    /\ has_object(objects, ret.val[1])
    /\ ~objects[ret.val[1]].is_shared

\* the last reading has the result and the store of the first one made in
\* the same way
ReadAgain ==
    /\ IsSome(classified.last)
    /\ LET last == Unwrap(classified.last)
           first == classified.first[last.how]
       IN /\ first.call < last.call
          /\ first.result = last.result
          /\ first.objs = last.objs

AllReturned == \A t \in Threads : threads[t].pc \in {"start", "returned", "panicked"}

\* the entries whose record_trace has returned
Recorded == {t \in Threads : threads[t].pc = "returned" /\ IsSome(threads[t].entry)}

\* how many times the log holds entry e
Copies(e) == Cardinality({i \in DOMAIN traces : traces[i] = e})

IsPrefix(a, b) == Len(a) <= Len(b) /\ \A i \in DOMAIN a : a[i] = b[i]

\* C18: once every call of record_trace has returned, the log holds each
\* recorded entry exactly once, whatever the interleaving and also when a
\* thread has panicked with the lock in hand.
C18_EveryRecordedEntryIsInTheLogOnce ==
    AllReturned => \A e \in Recorded : Copies(e) = 1

\* C19 as stated: no entry is written to the file by two saves.
C19_NoEntryIsWrittenByTwoSaves ==
    \A i, j \in DOMAIN sink :
        i < j => \A k \in DOMAIN sink[i] : \A l \in DOMAIN sink[j] : sink[i][k] # sink[j][l]

\* C19, amended: a save writes the whole log and leaves it as it was, so
\* each save writes again what the save before it wrote, followed by the
\* entries recorded since; the file holds what the last save wrote, and in
\* it each entry once.
C19_EverySaveWritesTheWholeLog ==
    /\ \A i \in DOMAIN sink :
          /\ IsPrefix(sink[i], traces)
          /\ i > 1 => IsPrefix(sink[i - 1], sink[i])
    /\ sink # <<>> =>
          /\ file = Some(sink[Len(sink)])
          /\ \A k, l \in DOMAIN Unwrap(file) :
                Unwrap(file)[k] = Unwrap(file)[l] => k = l

\* two saves with no record_trace in between have written the same entry
C19_Witness ==
    /\ Len(sink) = 2
    /\ sink[1] # <<>>
    /\ sink[2] = sink[1]
    /\ traces = sink[1]

\* C20: what a save writes is the log as it was when the save took the
\* lock: the entries whose append was complete by then, in log order, a
\* prefix of the log at any later time.
C20_SaveWritesTheLogAsLocked ==
    /\ \A t \in Threads :
          threads[t].pc = "println" =>
              /\ sink # <<>>
              /\ sink[Len(sink)] = threads[t].seen
    /\ \A i \in DOMAIN sink : IsPrefix(sink[i], traces)

\* a save has written the entry another thread had recorded, while a third
\* thread has its call still to make
C20_Witness ==
    \E t, u, v \in Threads :
        /\ threads[t].pc = "println"
        /\ threads[t].seen = <<u>>
        /\ sink[Len(sink)] = threads[t].seen
        /\ threads[u].pc = "returned"
        /\ threads[v].pc = "start"

(***************************************************************************)
(* The trace log over a run of main.                                       *)
(***************************************************************************)
\* C21: every step of main, a helper recording its trace and save_traces
\* included, leaves the trace log as it was or with one more entry at its
\* end; no entry is removed, moved or changed.
C21_TheLogIsAppendOnly ==
    [][\/ traces' = traces
       \/ /\ Len(traces') = Len(traces) + 1
          /\ IsPrefix(traces, traces')]_vars

\* the log has grown entry by entry and save_traces has left it whole
C21_Witness ==
    /\ Len(traces) > 3
    /\ traces[1].step = "register_service"
    /\ traces[3].step = "use_access"
    /\ file = Some(traces)

\* C22: every block handed to env.execute_ptb, whatever helper of whatever
\* flow composed it and whether it succeeds or fails, appends one entry to
\* the trace log, in the step in which the engine call has returned.
C22_EveryBlockIsTraced ==
    [][engine'.n # engine.n =>
          /\ Len(traces') = Len(traces) + 1
          /\ IsPrefix(traces, traces')
          /\ Len(traces'[Len(traces')].inputs) = Len(engine'.inputs)
          /\ Len(traces'[Len(traces')].commands) = Len(engine'.commands)
          /\ traces'[Len(traces')].outputs.success = engine'.result.success]_vars

\* main has returned
Ended == pc \in {"done", "failed"}

\* C23: when main has returned, by whatever path, every entry of the trace
\* log is in the file.
C23_EveryEntryIsWrittenByTheEnd ==
    Ended =>
        \A i \in DOMAIN traces :
            /\ IsSome(file)
            /\ i \in DOMAIN Unwrap(file)
            /\ Unwrap(file)[i] = traces[i]

\* C24 as stated: a failure to write the trace file does not change how the
\* run ends: main returns Ok as it would have after a write that went well.
C24_FailedSaveDoesNotFailTheRun ==
    ret.op = "save_traces" => pc = "done"

\* C24, amended: a failure to write the trace file is returned by
\* save_traces and, with ?, by main: the run ends with that error although
\* the five flows returned Ok, and no file is written.
C24_FailedSaveFailsTheRun ==
    (ret.op = "save_traces" /\ ~ret.ok) =>
        /\ ret.kind = "io"
        /\ pc = "failed"
        /\ file = None

\* the five flows have returned Ok, the write of the file has failed and
\* main has returned the error
C24_Witness ==
    /\ ret.op = "save_traces"
    /\ ret.kind = "io"
    /\ pc = "failed"
    /\ Len(traces) > 3

\* C25: whenever a flow submits a block and the engine reports
\* success = false, the call that submitted it returns an error of the
\* execution, which its caller receives in place of a value.
C25_FailedBlockIsReturnedAsAnError ==
    [][(engine'.n # engine.n /\ ~engine'.result.success)
          => /\ ~ret'.ok
             /\ ret'.kind = "execution"]_vars

\* the log comes back from its JSON form as it went in
ReadsBackEqual(log) ==
    from_str(to_string_pretty(DemoTraces(log))) = DemoTraces(log)

C27_TraceRendersTheBlockInPlace ==
    [][Len(traces') > Len(traces) =>
        LET trace == traces'[Len(traces')]
            created == IF IsSome(engine'.result.effects)
                       THEN Unwrap(engine'.result.effects).created ELSE <<>>
            mutated == IF IsSome(engine'.result.effects)
                       THEN Unwrap(engine'.result.effects).mutated ELSE <<>>
        IN /\ DOMAIN trace.inputs = DOMAIN engine'.inputs
           /\ DOMAIN trace.commands = DOMAIN engine'.commands
           /\ \A i \in DOMAIN trace.inputs :
                 /\ trace.inputs[i].index = i - 1
                 /\ IF engine'.inputs[i].kind = "Pure"
                    THEN /\ IsSome(trace.inputs[i].value)
                         /\ trace.inputs[i].object_id = None
                    ELSE /\ trace.inputs[i].object_id = Some(HexId(engine'.inputs[i].id))
                         /\ trace.inputs[i].value = None
           /\ \A j \in DOMAIN trace.commands : trace.commands[j].index = j - 1
           /\ engine'.result.success =>
                 /\ DOMAIN trace.outputs.created_objects = DOMAIN created
                 /\ DOMAIN trace.outputs.mutated_objects = DOMAIN mutated
                 /\ \A i \in DOMAIN created :
                       /\ trace.outputs.created_objects[i].object_id = HexId(created[i])
                       /\ ~has_object(objects', created[i]) =>
                             /\ trace.outputs.created_objects[i].object_type = "unknown"
                             /\ trace.outputs.created_objects[i].owner = "unknown"
                 /\ \A i \in DOMAIN mutated :
                       trace.outputs.mutated_objects[i] = HexId(mutated[i])]_vars

\* the last trace is that of a successful block with Pure and object inputs,
\* a mutated object and two created ones, of which the store holds one
C27_Witness ==
    /\ ret.op = "purchase_access"
    /\ ret.kind # "not_found"
    /\ engine.result.success
    /\ Len(LastTrace.inputs) = Len(engine.inputs)
    /\ \E i \in DOMAIN LastTrace.inputs : IsSome(LastTrace.inputs[i].value)
    /\ \E i \in DOMAIN LastTrace.inputs : IsSome(LastTrace.inputs[i].object_id)
    /\ LastTrace.outputs.mutated_objects # <<>>
    /\ Len(Created) = 2
    /\ \E i \in DOMAIN Created : has_object(objects, Created[i])
    /\ \E i \in DOMAIN Created :
          /\ ~has_object(objects, Created[i])
          /\ LastTrace.outputs.created_objects[i].owner = "unknown"

\* C28: whenever extract_protocol_objects returns Ok, which takes a
\* successful result with two created objects or more, the config id and the
\* admin capability id it returns are two different ids of the created list.
C28_ConfigAndAdminCapDiffer ==
    (Classified("initialize_protocol") /\ ret.ok) =>
        /\ \E i \in DOMAIN Created : ret.val[1] = Created[i]
        /\ \E i \in DOMAIN Created : ret.val[2] = Created[i]
        /\ ret.val[1] # ret.val[2]

\* C29: every flow begins with a store that holds nothing, so not the clock
\* of an earlier flow either, and whenever a helper that resolves the clock
\* is called the store of the flow holds object 0x6, shared and at version 1:
\* no helper returns "Clock not found".
C29_ClockIsLoadedBeforeItIsResolved ==
    [][/\ (ret'.op = "SimulationEnvironment::new" /\ ret'.ok) => objects' = NoObjects
       /\ CLOCK_ID \in ret'.uses =>
             /\ has_object(objects, CLOCK_ID)
             /\ objects[CLOCK_ID].is_shared
             /\ objects[CLOCK_ID].version = CLOCK_VERSION
             /\ ret'.err # "Clock not found"]_vars

\* a helper of the last flow has resolved the clock, which that flow loaded
\* into its own store, after earlier flows had done so in theirs
C29_Witness ==
    /\ ret.op = "execute_fund_trade"
    /\ CLOCK_ID \in ret.uses
    /\ ret.kind # "not_found"
    /\ has_object(engine.at, CLOCK_ID)
    /\ engine.at[CLOCK_ID].is_shared
    /\ Len(traces) > 3

\* which of the five flows main is in, counted from 1
RunningFlow ==
    LET n1 == Len(demo_basic_flow)
        n2 == n1 + Len(demo_delegated_authorization)
        n3 == n2 + Len(demo_service_registry)
        n4 == n3 + Len(demo_nautilus_seal_verification)
    IN IF Index <= n1 THEN 1
       ELSE IF Index <= n2 THEN 2
       ELSE IF Index <= n3 THEN 3
       ELSE IF Index <= n4 THEN 4 ELSE 5

\* C30: every trace entry carries as demo the name of the flow that was
\* running when its block was submitted, so that the name of the first flow is
\* on the entries of the first flow only, and as sender the sender the
\* environment had at that submission.
C30_EntryNamesItsFlowAndSender ==
    [][Len(traces') > Len(traces) =>
          /\ (traces'[Len(traces')].demo = basic_flow) <=> (RunningFlow = 1)
          /\ traces'[Len(traces')].sender = <<"0x", sender>>]_vars

====
